---------------------------- MODULE Spec2Model ----------------------------
(***************************************************************************)
(* The two paginated fetch-and-checkpoint scripts of the repository:       *)
(*   scripts/fetch_all_players.py    ("all":   cursor pagination, atomic   *)
(*                                    writes, players_profiles.state.json) *)
(*   scripts/fetch_store_players.py  ("store": page-number pagination,     *)
(*                                    .partial.json / .checkpoint.json)    *)
(* One behaviour follows one of the scripts over any number of process     *)
(* runs against one fixed endpoint.  A process can be killed between any   *)
(* two steps; the files survive, the memory of the process does not.       *)
(* Every run is a run without --fresh.  A write can raise at any of its    *)
(* steps.  Sleeps (throttle, backoff) pass no state on; their length is    *)
(* recorded, with the response headers, in SpecHeaders only.               *)
(***************************************************************************)
EXTENDS Integers, Sequences, FiniteSets, TLC

\* ------------------------------------------------------------------ bounds
MaxPagesAll == 6
MaxPagesStore == 3
MaxId == 2
MaxRetriesArg == 1
MaxAttempts == 3
MaxBeyond == 1
MaxPagesFiles == 2
MaxPagesHeaders == 2
MaxPagesStreak == 7
MaxPagesRuns == 2

\* ------------------------------------------------------- program constants
MAX_EMPTY_STREAK == 5
RETRY_CEILING_ALL == 5

\* None, and an item whose "id" is missing or not an int
None == 0
NoId == 0
\* an absent or non-digit header
NoHeader == -1

VARIABLES
  script,                 \* which script this behaviour follows
  endpoint,               \* the remote listing: kind of each page, "D" or "E"
  reports_total,          \* store: the endpoint reports paging.total
  wait_for_reset,         \* store: args.wait_for_reset
  max_retries,            \* store: args.max_retries (all: the literal ceiling)
  files,                  \* the file system: path -> document
  pc,                     \* position of the running process, "idle" if none
  stop,                   \* why the loop of the last/current run ended
  players_by_id,          \* the in-memory store (a dict, in insertion order)
  cursor,                 \* all: cursor of the next request
  resp,                   \* all: last response (data, meta.next_cursor)
  empty_streak,           \* all
  retries_for_page,       \* all
  page,                   \* store: page of the next request
  total_pages_reported,   \* store
  consecutive_retries,    \* store
  response_items,         \* store: payload["response"] of the last 200
  status,                 \* store: class of the last HTTP status ("none" before any)
  attempts,               \* fetches issued for the current page in this run
  harness,                \* the resume/idempotence experiment (SpecResume)
  observed                \* store: headers of the last non-200 response and the
                          \* sleep taken after it (recorded in SpecHeaders)

config == <<script, endpoint, reports_total, wait_for_reset, max_retries>>
memAll == <<cursor, resp, empty_streak, retries_for_page>>
memStore == <<page, total_pages_reported, consecutive_retries, response_items, status>>
vars == <<config, files, pc, stop, players_by_id, memAll, memStore, attempts, harness,
          observed>>

\* ------------------------------------------------------------- documents
out_path == "players_profiles.json"
out_tmp == "players_profiles.json.tmp"
state_path == "players_profiles.state.json"
state_tmp == "players_profiles.state.json.tmp"
out_partial == "players_profiles.partial.json"
out_checkpoint == "players_profiles.checkpoint.json"
Paths == {out_path, out_tmp, state_path, state_tmp, out_partial, out_checkpoint}

\* A file is absent, holds a truncated (unparseable) text, or holds a whole
\* JSON document, of which the fields the scripts read back are kept:
\* players (the list), pos (resume_cursor / next_page / pages_fetched_up_to),
\* total (total_saved / total_pages).
Absent == [st |-> "absent", players |-> <<>>, pos |-> None, total |-> None]
Truncated == [st |-> "truncated", players |-> <<>>, pos |-> None, total |-> None]
Doc(players, pos, total) == [st |-> "json", players |-> players, pos |-> pos, total |-> total]

Parses(path) == files[path].st = "json"
Exists(path) == files[path].st # "absent"

\* --------------------------------------------------------------- the dict
IdsOf(d) == {d[i].id : i \in DOMAIN d}
Records(d) == {d[i] : i \in DOMAIN d}
NoDuplicateIds(d) == \A i, j \in DOMAIN d : d[i].id = d[j].id => i = j

\* d[rec.id] = rec
DictSet(d, rec) ==
  IF rec.id \in IdsOf(d)
  THEN [i \in DOMAIN d |-> IF d[i].id = rec.id THEN rec ELSE d[i]]
  ELSE Append(d, rec)

\* if rec.id not in d: d[rec.id] = rec
DictSetDefault(d, rec) == IF rec.id \in IdsOf(d) THEN d ELSE Append(d, rec)

\* ----------------------------------------------------------- the endpoint
\* Page i of a data page: two items with the same id and different content
\* around an item without an integer id.  Ids descend from page to page and
\* repeat every MaxId pages.
IdOf(i) == MaxId - ((i - 1) % MaxId)
Data(i) == << [id |-> IdOf(i), v |-> 2 * i - 1],
              [id |-> NoId, v |-> 0],
              [id |-> IdOf(i), v |-> 2 * i] >>
EndpointsUpTo(n) == UNION {[1..k -> {"D", "E"}] : k \in 1..n}
\* an "N" page holds one item, without an integer id; an "E" page and every
\* page past the last hold an empty list
PageItems(i) ==
  IF i \in DOMAIN endpoint /\ endpoint[i] = "D" THEN Data(i)
  ELSE IF i \in DOMAIN endpoint /\ endpoint[i] = "N" THEN <<[id |-> NoId, v |-> 0]>>
  ELSE <<>>
IntIdsOfPage(i) == IdsOf(PageItems(i)) \ {NoId}


\* ======================================================================
\* scripts/fetch_all_players.py
\* ======================================================================

\* atomic_write_json, one step at a time.  OpenTmp: tmp.open("w") creates or
\* truncates the temporary file; DumpTmp: json.dump, flush, fsync leave the
\* whole document in it; Replace: os.replace moves it onto the path.
TmpOf(path) == IF path = out_path THEN out_tmp ELSE state_tmp
\* a write that opens the path itself instead of the temporary file
OpenTmpDirect(path) == files' = [files EXCEPT ![path] = Truncated]
OpenTmp(path) == files' = [files EXCEPT ![TmpOf(path)] = Truncated]
DumpTmp(path, data) == files' = [files EXCEPT ![TmpOf(path)] = data]
Replace(path) ==
  files' = [files EXCEPT ![path] = files[TmpOf(path)], ![TmpOf(path)] = Absent]

\* load_json_or: a missing or unparseable file gives the default
\* a start that forgets the players already saved
LoadStoreListEmpty == <<>>
LoadStoreList == IF Parses(out_path) THEN files[out_path].players ELSE <<>>
LoadResumeCursor == IF Parses(state_path) THEN files[state_path].pos ELSE None

\* for item in existing_players: players_by_id[int(item.get("id"))] = item
RECURSIVE LoadExisting(_, _)
LoadExisting(d, list) ==
  IF list = <<>> THEN d
  ELSE LoadExisting(IF Head(list).id # NoId THEN DictSet(d, Head(list)) ELSE d,
                    Tail(list))

\* for item in page_data: if isinstance(pid, int): players_by_id[pid] = d
RECURSIVE MergeAll(_, _)
MergeAll(d, items) ==
  IF items = <<>> THEN d
  ELSE MergeAll(IF Head(items).id # NoId THEN DictSet(d, Head(items)) ELSE d,
                Tail(items))
\* a count of every item of the page, with or without an integer id
PageCountAnyItem(items) == Len(items)
PageCount(items) == Cardinality({i \in DOMAIN items : items[i].id # NoId})

\* [players_by_id[k] for k in sorted(players_by_id.keys())]
RECURSIVE SortSet(_)
SortSet(S) ==
  IF S = {} THEN <<>>
  ELSE LET m == CHOOSE x \in S : \A y \in S : x <= y
       IN  <<m>> \o SortSet(S \ {m})
Get(d, k) == d[CHOOSE i \in DOMAIN d : d[i].id = k]
PlayersList(d) == LET ks == SortSet(IdsOf(d)) IN [i \in DOMAIN ks |-> Get(d, ks[i])]

\* the two documents save_progress writes
StoreSnapshot == Doc(PlayersList(players_by_id), None, None)
StateSnapshot == Doc(<<>>, resp.next_cursor, Len(players_by_id))
\* final_state = load_json_or(state_path, {}); final_state["resume_cursor"] = None
\* a final write that leaves the cursor in the state file
FinalStateKeepsCursor ==
  IF Parses(state_path) THEN files[state_path] ELSE Doc(<<>>, None, None)
FinalState ==
  IF Parses(state_path) THEN [files[state_path] EXCEPT !.pos = None]
  ELSE Doc(<<>>, None, None)

\* api.nba.players.list(cursor=c): cursor None asks for page 1, and the
\* next_cursor of page i (when another page follows) asks for page i + 1
ListPlayers(c) ==
  [valid |-> TRUE, data |-> PageItems(c + 1),
   next_cursor |-> IF c + 1 < Len(endpoint) THEN c + 1 ELSE None]
NoResp == [valid |-> FALSE, data |-> <<>>, next_cursor |-> None]

\* the memory of a process that is not running
NoMemory ==
  /\ players_by_id' = <<>>
  /\ cursor' = None /\ resp' = NoResp /\ empty_streak' = 0 /\ retries_for_page' = 0
  /\ page' = 1 /\ total_pages_reported' = None /\ consecutive_retries' = 0
  /\ response_items' = <<>> /\ status' = "none"

Running == pc # "idle"

StartAll ==
  /\ script = "all" /\ pc = "idle"
  /\ players_by_id' = LoadExisting(<<>>, LoadStoreList)
  /\ cursor' = LoadResumeCursor
  /\ resp' = NoResp /\ empty_streak' = 0 /\ retries_for_page' = 0
  /\ attempts' = 0
  /\ stop' = "running"
  /\ pc' = "fetch"
  /\ UNCHANGED <<config, files, memStore, harness, observed>>

\* lines 167-170, 183-203: the request succeeds
FetchOkAll ==
  /\ script = "all" /\ pc = "fetch"
  /\ resp' = ListPlayers(cursor)
  /\ retries_for_page' = 0
  /\ attempts' = 0
  /\ players_by_id' = MergeAll(players_by_id, resp'.data)
  /\ empty_streak' = IF PageCount(resp'.data) = 0 THEN empty_streak + 1 ELSE 0
  /\ pc' = "store_open"
  /\ UNCHANGED <<config, files, stop, cursor, memStore, harness, observed>>

\* lines 171-181: the request raises
\* a ceiling exit that clears the resume cursor on its way out
FetchFailAllClearsCursor ==
  /\ script = "all" /\ pc = "fetch"
  /\ attempts' = attempts + 1
  /\ IF retries_for_page + 1 > RETRY_CEILING_ALL
     THEN /\ pc' = "idle" /\ stop' = "retries" /\ NoMemory
          /\ files' = [files EXCEPT ![state_path] = FinalState]
          /\ UNCHANGED <<config, harness, observed>>
     ELSE /\ retries_for_page' = retries_for_page + 1
          /\ UNCHANGED <<config, files, pc, stop, players_by_id, cursor, resp,
                         empty_streak, memStore, harness, observed>>
FetchFailAll ==
  /\ script = "all" /\ pc = "fetch"
  /\ attempts' = attempts + 1
  /\ IF retries_for_page + 1 > RETRY_CEILING_ALL
     THEN /\ pc' = "idle" /\ stop' = "retries" /\ NoMemory
          /\ UNCHANGED <<config, files, harness, observed>>
     ELSE /\ retries_for_page' = retries_for_page + 1
          /\ UNCHANGED <<config, files, pc, stop, players_by_id, cursor, resp,
                         empty_streak, memStore, harness, observed>>

Step(from, to) ==
  /\ script = "all" /\ pc = from /\ pc' = to
  /\ UNCHANGED <<config, stop, players_by_id, memAll, memStore, attempts, harness, observed>>

\* save_progress, line 110
StoreOpenTmp == Step("store_open", "store_dump") /\ OpenTmp(out_path)
StoreDumpTmp == Step("store_dump", "store_replace") /\ DumpTmp(out_path, StoreSnapshot)
StoreReplace == Step("store_replace", "state_open") /\ Replace(out_path)
\* save_progress, line 119
StateOpenTmp == Step("state_open", "state_dump") /\ OpenTmp(state_path)
StateDumpTmp == Step("state_dump", "state_replace") /\ DumpTmp(state_path, StateSnapshot)

\* lines 218-226: the stop conditions after save_progress returned
\* a loop that only stops on the empty streak
StopReasonStreakOnly == IF empty_streak >= MAX_EMPTY_STREAK THEN "streak" ELSE "running"
StopReason ==
  IF empty_streak >= MAX_EMPTY_STREAK THEN "streak"
  ELSE IF resp.next_cursor = None THEN "no_cursor"
  ELSE "running"

\* the os.replace of the state file ends save_progress; the loop then stops
\* or moves to resp.next_cursor
StateReplace ==
  /\ script = "all" /\ pc = "state_replace"
  /\ Replace(state_path)
  /\ stop' = StopReason
  /\ IF StopReason = "running"
     THEN pc' = "fetch" /\ cursor' = resp.next_cursor
     ELSE pc' = "final_open" /\ cursor' = cursor
  /\ UNCHANGED <<config, players_by_id, resp, empty_streak, retries_for_page,
                 memStore, attempts, harness, observed>>

\* lines 229-234
FinalOpenTmp == Step("final_open", "final_dump") /\ OpenTmp(state_path)
FinalDumpTmp == Step("final_dump", "final_replace") /\ DumpTmp(state_path, FinalState)
\* a final step that removes the state file instead of replacing it
FinalReplaceUnlinksState ==
  /\ script = "all" /\ pc = "final_replace"
  /\ files' = [files EXCEPT ![state_path] = Absent, ![state_tmp] = Absent]
  /\ pc' = "idle" /\ NoMemory
  /\ UNCHANGED <<config, stop, attempts, harness, observed>>
FinalReplace ==
  /\ script = "all" /\ pc = "final_replace"
  /\ Replace(state_path)
  /\ pc' = "idle" /\ NoMemory
  /\ UNCHANGED <<config, stop, attempts, harness, observed>>

\* save_progress is called outside any try block: a write that raises (open,
\* dump/flush/fsync or os.replace) ends the process with a traceback.  The
\* files are as the steps before left them: a failed open or replace changes
\* nothing, a failed dump leaves the temporary file unparseable.
SaveProgressPcs ==
  {"store_open", "store_dump", "store_replace", "state_open", "state_dump", "state_replace"}
\* a save_progress whose failure is only warned about, as the final write's is
WriteFailsAllSwallowed ==
  /\ script = "all" /\ pc \in SaveProgressPcs
  /\ stop' = StopReason
  /\ IF StopReason = "running"
     THEN pc' = "fetch" /\ cursor' = resp.next_cursor
     ELSE pc' = "final_open" /\ cursor' = cursor
  /\ UNCHANGED <<config, files, players_by_id, resp, empty_streak, retries_for_page,
                 memStore, attempts, harness, observed>>
WriteFailsAll ==
  /\ script = "all" /\ pc \in SaveProgressPcs
  /\ pc' = "idle" /\ stop' = "write_error" /\ attempts' = 0 /\ NoMemory
  /\ UNCHANGED <<config, files, harness, observed>>
\* lines 229-236: the final write is inside try/except Exception, a failure is
\* warned about and the function returns
FinalWriteFails ==
  /\ script = "all" /\ pc \in {"final_open", "final_dump", "final_replace"}
  /\ pc' = "idle" /\ stop' = "final_write_error" /\ NoMemory
  /\ UNCHANGED <<config, files, attempts, harness, observed>>

\* the process is killed between two steps
Kill ==
  /\ Running
  /\ pc' = "idle" /\ stop' = "killed" /\ attempts' = 0 /\ NoMemory
  /\ UNCHANGED <<config, files, harness, observed>>

NextAll ==
  \/ StartAll \/ FetchOkAll \/ FetchFailAll
  \/ StoreOpenTmp \/ StoreDumpTmp \/ StoreReplace
  \/ StateOpenTmp \/ StateDumpTmp \/ StateReplace
  \/ FinalOpenTmp \/ FinalDumpTmp \/ FinalReplace
  \/ WriteFailsAll \/ FinalWriteFails

\* ======================================================================
\* scripts/fetch_store_players.py
\* ======================================================================

\* Path.write_text, one step at a time: open(path, "w") creates or truncates
\* the file itself, then the text is written and the file closed.
WriteTextOpen(path) == files' = [files EXCEPT ![path] = Truncated]
WriteTextData(path, data) == files' = [files EXCEPT ![path] = data]

\* load_checkpoint: both files must exist and parse, else (1, None, {})
CheckpointLoads == Parses(out_checkpoint) /\ Parses(out_partial)
Max(a, b) == IF a >= b THEN a ELSE b
LoadNextPage == IF CheckpointLoads THEN Max(1, files[out_checkpoint].pos) ELSE 1
LoadTotalPages == IF CheckpointLoads THEN files[out_checkpoint].total ELSE None
\* {p["id"]: p for p in players_list if isinstance(p, dict) and "id" in p}
RECURSIVE LoadPlayers(_, _)
LoadPlayers(d, list) ==
  IF list = <<>> THEN d ELSE LoadPlayers(DictSet(d, Head(list)), Tail(list))
LoadCheckpointPlayers ==
  IF CheckpointLoads THEN LoadPlayers(<<>>, files[out_partial].players) ELSE <<>>

\* merge_players: if isinstance(pid, int): if pid not in target: target[pid] = player
RECURSIVE merge_players(_, _)
merge_players(target, items) ==
  IF items = <<>> THEN target
  ELSE merge_players(IF Head(items).id # NoId
                     THEN DictSetDefault(target, Head(items)) ELSE target,
                     Tail(items))

\* the two documents save_partial writes: list(players_by_id.values()) keeps
\* the insertion order
PartialSnapshot == Doc(players_by_id, page, total_pages_reported)
CheckpointSnapshot == Doc(<<>>, page + 1, total_pages_reported)
EmptyOutput == Doc(<<>>, None, None)

\* paging.total of a 200 response
PagingTotal == IF reports_total THEN Len(endpoint) ELSE None

\* read_rate_limits: get_int gives None (NoHeader) for an absent or non-digit
\* header; requests_remaining is get_int(a) or get_int(b)
HeaderValues == {NoHeader, 0, 1}
Headers == [requests_remaining : HeaderValues, remaining : HeaderValues,
            requests_reset : HeaderValues, retry_after : HeaderValues]
PyOr(a, b) == IF a # NoHeader /\ a # 0 THEN a ELSE b
RequestsRemaining(h) == PyOr(h.requests_remaining, h.remaining)
DailyLimitReached(h) == RequestsRemaining(h) # NoHeader /\ RequestsRemaining(h) <= 0

\* int(time.time()) when sleep_until_reset runs
Clock == {0, 1}
Min(a, b) == IF a <= b THEN a ELSE b
\* min(2**consecutive_retries, 60)
Backoff(n) == Min(2 ^ n, 60)
\* sleep_until_reset: the seconds it sleeps
SleepUntilReset(h, now) ==
  IF h.retry_after # NoHeader /\ h.retry_after # 0 THEN h.retry_after
  ELSE IF /\ h.requests_reset # NoHeader /\ h.requests_reset # 0
          /\ h.requests_reset > now /\ h.requests_reset - now < 24 * 3600
       THEN h.requests_reset - now
       ELSE 60
NoObservation ==
  [h |-> [requests_remaining |-> NoHeader, remaining |-> NoHeader,
          requests_reset |-> NoHeader, retry_after |-> NoHeader],
   slept |-> 0]

StartStore ==
  /\ script = "store" /\ pc = "idle"
  /\ page' = LoadNextPage
  /\ total_pages_reported' = LoadTotalPages
  /\ players_by_id' = LoadCheckpointPlayers
  /\ consecutive_retries' = 0 /\ response_items' = <<>> /\ status' = "none"
  /\ attempts' = 0
  /\ stop' = "running"
  /\ pc' = "fetch"
  /\ UNCHANGED <<config, files, memAll, harness, observed>>

ReachedTotal == total_pages_reported # None /\ page > total_pages_reported
\* the loop is at a request the model follows: pages up to MaxBeyond past the
\* last page of the endpoint
AtFetch == script = "store" /\ pc = "fetch" /\ ~ReachedTotal /\ page <= Len(endpoint) + MaxBeyond

\* lines 301-303
StopAtTotal ==
  /\ script = "store" /\ pc = "fetch" /\ ReachedTotal
  /\ stop' = "total" /\ pc' = "finalize"
  /\ UNCHANGED <<config, files, players_by_id, memAll, memStore, attempts, harness, observed>>

\* lines 311-323: status 200
Fetch200 ==
  /\ AtFetch
  /\ consecutive_retries' = 0
  /\ attempts' = 0
  /\ status' = "200"
  /\ response_items' = PageItems(page)
  /\ total_pages_reported' =
       IF PagingTotal # None THEN PagingTotal ELSE total_pages_reported
  /\ players_by_id' = merge_players(players_by_id, response_items')
  /\ pc' = "partial_open"
  /\ UNCHANGED <<config, files, stop, page, memAll, harness, observed>>

Break(why) ==
  /\ stop' = why /\ pc' = "finalize"
  /\ UNCHANGED <<config, files, players_by_id, page, total_pages_reported,
                 response_items, memAll, harness>>
\* a retry that moves on to the next page
ContinueSkipsPage ==
  /\ page' = page + 1
  /\ UNCHANGED <<config, files, pc, stop, players_by_id, total_pages_reported,
                 response_items, memAll, harness>>
Continue ==
  UNCHANGED <<config, files, pc, stop, players_by_id, page, total_pages_reported,
              response_items, memAll, harness>>

\* lines 343-380: status 429, 503 or 504 with headers h
FetchRetryableOn(h) ==
  /\ AtFetch
  /\ consecutive_retries < MaxAttempts
  /\ consecutive_retries' = consecutive_retries + 1
  /\ attempts' = attempts + 1
  /\ status' = "retryable"
  /\ IF DailyLimitReached(h)
     THEN IF wait_for_reset THEN Continue ELSE Break("daily")
     ELSE IF consecutive_retries' > max_retries THEN Break("retries")
     ELSE Continue
\* the seconds that branch sleeps before its continue (0: it breaks)
SleepRetryable(h, now) ==
  IF DailyLimitReached(h)
  THEN IF wait_for_reset THEN SleepUntilReset(h, now) ELSE 0
  ELSE IF consecutive_retries + 1 > max_retries THEN 0
  ELSE IF h.retry_after # NoHeader /\ h.retry_after > 0 THEN h.retry_after
  ELSE Backoff(consecutive_retries + 1)
\* the sleep passes no state on: where it is not recorded, the headers that
\* only set its length are left out
LimitHeaders == {h \in Headers : h.requests_reset = NoHeader /\ h.retry_after = NoHeader}
FetchRetryable == \E h \in LimitHeaders : FetchRetryableOn(h) /\ UNCHANGED observed
FetchRetryableObserved ==
  \E h \in Headers, now \in Clock :
    FetchRetryableOn(h) /\ observed' = [h |-> h, slept |-> SleepRetryable(h, now)]

\* lines 382-393: any other status; the headers are not read
FetchUnexpectedOn ==
  /\ AtFetch
  /\ consecutive_retries < MaxAttempts
  /\ consecutive_retries' = consecutive_retries + 1
  /\ attempts' = attempts + 1
  /\ status' = "other"
  /\ IF consecutive_retries' > max_retries THEN Break("retries") ELSE Continue
SleepUnexpected ==
  IF consecutive_retries + 1 > max_retries THEN 0 ELSE Backoff(consecutive_retries + 1)
FetchUnexpected == FetchUnexpectedOn /\ UNCHANGED observed
FetchUnexpectedObserved ==
  \E h \in Headers :
    FetchUnexpectedOn /\ observed' = [h |-> h, slept |-> SleepUnexpected]

\* fetch_page raises (timeout, body that is not JSON): nothing in main catches
\* it, the finally clause closes the connection and the process ends
FetchRaises ==
  /\ AtFetch
  /\ pc' = "idle" /\ stop' = "exception" /\ attempts' = 0 /\ NoMemory
  /\ UNCHANGED <<config, files, harness, observed>>

StepStore(from, to) ==
  /\ script = "store" /\ pc = from /\ pc' = to
  /\ UNCHANGED <<config, stop, players_by_id, memAll, memStore, attempts, harness, observed>>

\* save_partial, lines 204-218
PartialOpen == StepStore("partial_open", "partial_write") /\ WriteTextOpen(out_partial)
PartialWrite ==
  StepStore("partial_write", "checkpoint_open") /\ WriteTextData(out_partial, PartialSnapshot)
\* save_partial, lines 220-230
CheckpointOpen ==
  StepStore("checkpoint_open", "checkpoint_write") /\ WriteTextOpen(out_checkpoint)
\* the write of the checkpoint ends save_partial; lines 334-341 then stop the
\* loop on an empty page or move to the next page
CheckpointWrite ==
  /\ script = "store" /\ pc = "checkpoint_write"
  /\ WriteTextData(out_checkpoint, CheckpointSnapshot)
  /\ IF response_items = <<>>
     THEN stop' = "empty" /\ pc' = "finalize" /\ page' = page
     ELSE stop' = stop /\ pc' = "fetch" /\ page' = page + 1
  /\ UNCHANGED <<config, players_by_id, total_pages_reported, consecutive_retries,
                 response_items, status, memAll, attempts, harness, observed>>

\* lines 402-403 and finalize: the text of the partial file is read, the
\* output opened and written, the partial file unlinked
FinalizeOpen ==
  /\ Exists(out_partial)
  /\ StepStore("finalize", "finalize_write") /\ WriteTextOpen(out_path)
FinalizeWrite ==
  StepStore("finalize_write", "finalize_unlink") /\ WriteTextData(out_path, files[out_partial])
FinalizeUnlink ==
  /\ script = "store" /\ pc = "finalize_unlink"
  /\ files' = [files EXCEPT ![out_partial] = Absent]
  /\ pc' = "idle" /\ NoMemory
  /\ UNCHANGED <<config, stop, attempts, harness, observed>>
\* lines 404-408: no partial file
EmptyOpen ==
  /\ ~Exists(out_partial)
  /\ StepStore("finalize", "empty_write") /\ WriteTextOpen(out_path)
EmptyWrite ==
  /\ script = "store" /\ pc = "empty_write"
  /\ WriteTextData(out_path, EmptyOutput)
  /\ pc' = "idle" /\ NoMemory
  /\ UNCHANGED <<config, stop, attempts, harness, observed>>

\* save_partial and finalize are called outside any except clause: a
\* write_text (or the read_text of finalize) that raises ends the process.
\* A failed open changes nothing, a failed write leaves the file truncated.
SavePartialPcs == {"partial_open", "partial_write", "checkpoint_open", "checkpoint_write"}
FinalizePcs == {"finalize", "finalize_write", "empty_write"}
WriteFailsStore ==
  /\ script = "store" /\ pc \in SavePartialPcs \cup FinalizePcs
  /\ pc' = "idle" /\ stop' = "write_error" /\ attempts' = 0 /\ NoMemory
  /\ UNCHANGED <<config, files, harness, observed>>
\* finalize, lines 260-263: a failed unlink is swallowed (except Exception: pass)
UnlinkFails ==
  /\ script = "store" /\ pc = "finalize_unlink"
  /\ pc' = "idle" /\ NoMemory
  /\ UNCHANGED <<config, files, stop, attempts, harness, observed>>

NextStore ==
  \/ StartStore \/ StopAtTotal \/ Fetch200
  \/ FetchRetryable \/ FetchUnexpected \/ FetchRaises
  \/ PartialOpen \/ PartialWrite \/ CheckpointOpen \/ CheckpointWrite
  \/ FinalizeOpen \/ FinalizeWrite \/ FinalizeUnlink
  \/ EmptyOpen \/ EmptyWrite
  \/ WriteFailsStore \/ UnlinkFails

\* ======================================================================
NoHarness == [phase |-> "off", ref |-> <<>>]

InitBase ==
  /\ script \in {"all", "store"}
  /\ endpoint \in EndpointsUpTo(IF script = "all" THEN MaxPagesAll ELSE MaxPagesStore)
  /\ reports_total \in (IF script = "store" THEN BOOLEAN ELSE {FALSE})
  /\ wait_for_reset \in (IF script = "store" THEN BOOLEAN ELSE {FALSE})
  /\ max_retries \in (IF script = "store" THEN 1..MaxRetriesArg ELSE {RETRY_CEILING_ALL})
  /\ files = [p \in Paths |-> Absent]
  /\ pc = "idle" /\ stop = "none"
  /\ players_by_id = <<>>
  /\ cursor = None /\ resp = NoResp /\ empty_streak = 0 /\ retries_for_page = 0
  /\ page = 1 /\ total_pages_reported = None /\ consecutive_retries = 0
  /\ response_items = <<>> /\ status = "none"
  /\ attempts = 0
  /\ observed = NoObservation

Init == InitBase /\ harness = NoHarness

Next == NextAll \/ NextStore \/ Kill

Spec == Init /\ [][Next]_vars

\* ======================================================================
\* The resume and idempotence experiments, against an endpoint that never
\* fails: a first run from absent files runs to completion and its output is
\* kept as the reference.  Then either the script is simply run again on the
\* files the first run left ("again"), or the files are removed and the
\* script is run, killed right after one of its page persists, and rerun to
\* completion ("interrupt", then "rerun").
\* ======================================================================
Graceful == {"streak", "no_cursor", "empty", "total"}
Finished == pc = "idle" /\ stop \in Graceful
FinalOutput == files[out_path].players

InitResume ==
  /\ InitBase
  /\ wait_for_reset = FALSE
  /\ max_retries = (IF script = "store" THEN MaxRetriesArg ELSE RETRY_CEILING_ALL)
  /\ harness = [phase |-> "first", ref |-> <<>>]

\* the script is started when it has not run in this phase or was killed
ResumeStart == stop \in {"none", "killed"} /\ (StartAll \/ StartStore)

Between(phase) ==
  /\ Finished /\ harness.phase = "first"
  /\ harness' = [phase |-> phase, ref |-> FinalOutput]
  /\ stop' = "none"
  /\ UNCHANGED <<config, pc, players_by_id, memAll, memStore, attempts, observed>>
RunAgain == Between("again") /\ UNCHANGED files
ResetFiles == Between("interrupt") /\ files' = [p \in Paths |-> Absent]

\* the process has just returned from save_progress / save_partial
JustPersisted ==
  \/ script = "all" /\ ((pc = "fetch" /\ resp.valid) \/ pc = "final_open")
  \/ script = "store" /\ ((pc = "fetch" /\ status = "200") \/ (pc = "finalize" /\ stop = "empty"))
KillAfterPersist ==
  /\ harness.phase = "interrupt" /\ JustPersisted
  /\ harness' = [harness EXCEPT !.phase = "rerun"]
  /\ pc' = "idle" /\ stop' = "killed" /\ attempts' = 0 /\ NoMemory
  /\ UNCHANGED <<config, files, observed>>

NextResume ==
  \/ ResumeStart \/ RunAgain \/ ResetFiles \/ KillAfterPersist
  \/ FetchOkAll
  \/ StoreOpenTmp \/ StoreDumpTmp \/ StoreReplace
  \/ StateOpenTmp \/ StateDumpTmp \/ StateReplace
  \/ FinalOpenTmp \/ FinalDumpTmp \/ FinalReplace
  \/ StopAtTotal \/ Fetch200
  \/ PartialOpen \/ PartialWrite \/ CheckpointOpen \/ CheckpointWrite
  \/ FinalizeOpen \/ FinalizeWrite \/ FinalizeUnlink

SpecResume == InitResume /\ [][NextResume]_vars

\* ======================================================================
\* fetch_all_players.py started on files it did not leave itself: the store
\* file was removed or damaged between two runs, or rewritten by
\* fetch_store_players.py, whose default output is the same path and whose
\* envelope the loader of fetch_all_players.py reads as no players; the state
\* file is missing, damaged, or holds any cursor.
\* ======================================================================
StoreFilesAtStart == {Absent, Truncated, Doc(<<[id |-> MaxId, v |-> 0]>>, None, None)}
StateFilesAtStart == {Absent, Truncated} \cup {Doc(<<>>, c, None) : c \in 0..MaxPagesFiles}

InitFiles ==
  /\ script = "all"
  /\ endpoint \in EndpointsUpTo(MaxPagesFiles)
  /\ reports_total = FALSE /\ wait_for_reset = FALSE /\ max_retries = RETRY_CEILING_ALL
  /\ \E s \in StoreFilesAtStart, t \in StateFilesAtStart :
       files = [p \in Paths |-> IF p = out_path THEN s ELSE IF p = state_path THEN t ELSE Absent]
  /\ pc = "idle" /\ stop = "none"
  /\ players_by_id = <<>>
  /\ cursor = None /\ resp = NoResp /\ empty_streak = 0 /\ retries_for_page = 0
  /\ page = 1 /\ total_pages_reported = None /\ consecutive_retries = 0
  /\ response_items = <<>> /\ status = "none"
  /\ attempts = 0
  /\ harness = NoHarness
  /\ observed = NoObservation

NextFiles == NextAll \/ Kill

SpecFiles == InitFiles /\ [][NextFiles]_vars

\* ======================================================================
\* One run of fetch_store_players.py from absent files in which the headers
\* of each non-200 response and the sleep that follows it are recorded.
\* ======================================================================
InitHeaders ==
  /\ InitBase /\ script = "store"
  /\ Len(endpoint) <= MaxPagesHeaders
  /\ harness = NoHarness

StartOnce == stop = "none" /\ StartStore

NextHeaders ==
  \/ StartOnce \/ StopAtTotal \/ Fetch200
  \/ FetchRetryableObserved \/ FetchUnexpectedObserved
  \/ PartialOpen \/ PartialWrite \/ CheckpointOpen \/ CheckpointWrite
  \/ FinalizeOpen \/ FinalizeWrite \/ FinalizeUnlink
  \/ EmptyOpen \/ EmptyWrite

SpecHeaders == InitHeaders /\ [][NextHeaders]_vars

\* ======================================================================
\* One run of fetch_all_players.py from absent files against endpoints that
\* also have pages whose items carry no integer id.
\* ======================================================================
InitStreak ==
  /\ script = "all"
  /\ endpoint \in UNION {[1..k -> {"D", "E", "N"}] : k \in 1..MaxPagesStreak}
  /\ reports_total = FALSE /\ wait_for_reset = FALSE /\ max_retries = RETRY_CEILING_ALL
  /\ files = [p \in Paths |-> Absent]
  /\ pc = "idle" /\ stop = "none"
  /\ players_by_id = <<>>
  /\ cursor = None /\ resp = NoResp /\ empty_streak = 0 /\ retries_for_page = 0
  /\ page = 1 /\ total_pages_reported = None /\ consecutive_retries = 0
  /\ response_items = <<>> /\ status = "none"
  /\ attempts = 0
  /\ harness = NoHarness
  /\ observed = NoObservation

StartOnceAll == stop = "none" /\ StartAll

NextStreak ==
  \/ StartOnceAll \/ FetchOkAll \/ FetchFailAll
  \/ StoreOpenTmp \/ StoreDumpTmp \/ StoreReplace
  \/ StateOpenTmp \/ StateDumpTmp \/ StateReplace
  \/ FinalOpenTmp \/ FinalDumpTmp \/ FinalReplace

SpecStreak == InitStreak /\ [][NextStreak]_vars

\* ======================================================================
\* Any sequence of runs of fetch_store_players.py (none with --fresh), each
\* ending in any way: before a run is started, the player list of the final
\* output file is noted, to be compared with the file the run leaves.
\* ======================================================================
InitRuns ==
  /\ InitBase /\ script = "store"
  /\ Len(endpoint) <= MaxPagesRuns
  /\ harness = [phase |-> "runs", ref |-> <<>>]

\* the previous run (if any) has ended; the next command line is typed
NextRun ==
  /\ script = "store" /\ pc = "idle" /\ stop # "none"
  /\ harness' = [harness EXCEPT !.ref = FinalOutput]
  /\ stop' = "none"
  /\ UNCHANGED <<config, files, pc, players_by_id, memAll, memStore, attempts, observed>>
RunEnded == script = "store" /\ pc = "idle" /\ stop # "none"

NextRuns ==
  \/ NextRun \/ StartOnce \/ StopAtTotal \/ Fetch200
  \/ FetchRetryable \/ FetchUnexpected \/ FetchRaises
  \/ PartialOpen \/ PartialWrite \/ CheckpointOpen \/ CheckpointWrite
  \/ FinalizeOpen \/ FinalizeWrite \/ FinalizeUnlink
  \/ EmptyOpen \/ EmptyWrite
  \/ WriteFailsStore \/ UnlinkFails
  \/ Kill

SpecRuns == InitRuns /\ [][NextRuns]_vars


\* ======================================================================
\* Claims
\* ======================================================================
\* C1: in fetch_all_players.py the canonical store path and the canonical
\* state path never hold a partially written file, whatever the step at which
\* the process is killed: every step leaves each of them as it was or replaces
\* it by the whole document being written (the store snapshot; the state
\* snapshot or the final state).
AtomicWriteAll ==
  [][script = "all" =>
       /\ files'[out_path].st # "truncated" /\ files'[state_path].st # "truncated"
       /\ files'[out_path] # files[out_path] => files'[out_path] = StoreSnapshot
       /\ files'[state_path] # files[state_path] =>
            files'[state_path] \in {StateSnapshot, FinalState}]_vars
\* C1 witness: killed between the temp-file write and os.replace: the whole new
\* snapshot is in the temporary file, the previous one at the store path
KilledBeforeReplaceAll ==
  /\ script = "all" /\ pc = "idle" /\ stop = "killed"
  /\ Parses(out_tmp) /\ Parses(out_path) /\ files[out_tmp] # files[out_path]

\* C2: in fetch_store_players.py, after the process was killed at any step,
\* none of the .partial.json, .checkpoint.json and output files is a
\* partially written file.
AtomicWriteStore ==
  (script = "store" /\ pc = "idle" /\ stop = "killed") =>
    \A p \in {out_partial, out_checkpoint, out_path} : files[p].st # "truncated"

\* C3: in fetch_store_players.py, whenever the partial file and the checkpoint
\* file both exist and parse, the partial file holds the records of every
\* page below the checkpoint's next_page.
CheckpointBehindPartial ==
  (script = "store" /\ Parses(out_partial) /\ Parses(out_checkpoint)) =>
    \A p \in 1..(files[out_checkpoint].pos - 1) :
      IntIdsOfPage(p) \subseteq IdsOf(files[out_partial].players)

\* C4: in fetch_all_players.py, whenever the state file holds a non-null
\* resume_cursor c, the store file holds a record for every id of every page
\* before the page c addresses (pages 1..c): the state is never ahead of the
\* store.
StateBehindStore ==
  (script = "all" /\ Parses(state_path) /\ files[state_path].pos # None) =>
    \A p \in 1..files[state_path].pos :
      IntIdsOfPage(p) \subseteq IdsOf(files[out_path].players)
\* C4 witness: killed between the two writes of save_progress, with a cursor
\* on disk: the store holds a page more than the state says
KilledBetweenWritesAll ==
  /\ script = "all" /\ pc = "idle" /\ stop = "killed"
  /\ Parses(state_path) /\ files[state_path].pos # None
  /\ IntIdsOfPage(files[state_path].pos + 1) # {}
  /\ IntIdsOfPage(files[state_path].pos + 1) \subseteq IdsOf(files[out_path].players)
  /\ files[state_path].total < Len(files[out_path].players)

\* C5: killing either script right after its N-th page persist and rerunning
\* it to completion gives the same final set of records as an uninterrupted
\* run from absent files against the same endpoint.
ResumeReproducesRun ==
  (harness.phase = "rerun" /\ Finished) => Records(FinalOutput) = Records(harness.ref)

\* C6: the merge is first-seen-wins: a successful fetch leaves every record
\* already in the store unchanged, and the store holds one record per id.
FirstSeenWins ==
  [][(pc = "fetch" /\ pc' \in {"store_open", "partial_open"}) =>
       /\ Records(players_by_id) \subseteq Records(players_by_id')
       /\ NoDuplicateIds(players_by_id')]_vars

\* C7: a run that stops because every fetch of the current page failed has
\* made exactly the configured ceiling of attempts at that page.
RetryCeiling == IF script = "all" THEN RETRY_CEILING_ALL ELSE max_retries
StopsAtCeiling == stop = "retries" => attempts = RetryCeiling

\* C8: in fetch_store_players.py the number of fetches of one page that is
\* answered with non-200 statuses is bounded by the retry ceiling (one first
\* attempt and max_retries retries), for every flag and header.
FetchesOfPageBounded == script = "store" => attempts <= RetryCeiling + 1

\* C9: after a successful response with an empty item list and no further
\* cursor/page the loop issues no further fetch in that run, and once the
\* loop has ended the snapshot of that page is on disk.
LastPageAll == resp.valid /\ resp.data = <<>> /\ resp.next_cursor = None
LastPageStore ==
  /\ status = "200" /\ response_items = <<>>
  /\ (total_pages_reported = None \/ page >= total_pages_reported)
StopsOnEmptyLastPage ==
  /\ (script = "all" /\ LastPageAll) =>
       /\ pc # "fetch"
       /\ pc \in {"final_open", "final_dump", "final_replace"} =>
            /\ files[out_path] = StoreSnapshot
            /\ Parses(state_path) /\ files[state_path].pos = None
  /\ (script = "store" /\ LastPageStore) =>
       /\ pc # "fetch"
       /\ pc = "finalize" =>
            /\ files[out_partial] = PartialSnapshot
            /\ files[out_checkpoint] = CheckpointSnapshot
\* C9 witness: the loop of fetch_all_players.py has ended on an empty last
\* page that followed a page with players
EndedOnEmptyLastPageAll ==
  /\ script = "all" /\ LastPageAll /\ pc = "final_open" /\ players_by_id # <<>>
EndedOnEmptyLastPageStore ==
  /\ script = "store" /\ LastPageStore /\ pc = "finalize" /\ players_by_id # <<>>

\* C10: running either script to completion and then again on the files the
\* first run left gives a final output with the same records as the first
\* run: none missing, no id twice.
RerunIsIdempotent ==
  (harness.phase = "again" /\ Finished) =>
    /\ Records(FinalOutput) = Records(harness.ref)
    /\ NoDuplicateIds(FinalOutput)
\* C10 witness: the second run has ended, with players in its output
SecondRunFinishedAll ==
  script = "all" /\ harness.phase = "again" /\ Finished /\ FinalOutput # <<>>
SecondRunFinishedStore ==
  script = "store" /\ harness.phase = "again" /\ Finished /\ FinalOutput # <<>>


\* C11: in fetch_all_players.py the exit on the exceeded retry ceiling writes no
\* file; the store and state on disk are then those persisted after the last
\* successful page of the run, or, when no page succeeded, those the run
\* loaded at its start; and a non-null resume_cursor in the state file is the
\* cursor of the request that failed.
RetryExitWritesNothing ==
  [][(script = "all" /\ pc = "fetch" /\ stop' = "retries") =>
       /\ files' = files
       /\ IF resp.valid
          THEN files'[out_path] = StoreSnapshot /\ files'[state_path] = StateSnapshot
          ELSE /\ players_by_id = LoadExisting(<<>>, LoadStoreList)'
               /\ cursor = LoadResumeCursor'
       /\ (Parses(state_path)' /\ files'[state_path].pos # None) =>
            files'[state_path].pos = cursor]_vars
\* C11 witness: a run has ended on the retry ceiling with a cursor on disk
EndedOnRetriesWithCursor ==
  /\ script = "all" /\ pc = "idle" /\ stop = "retries"
  /\ Parses(state_path) /\ files[state_path].pos # None

\* C12: in fetch_store_players.py, a run started (without --fresh) after a run
\* that stopped on exceeded retries or on the daily limit, with pages 1..k
\* durable (k is the pages_fetched_up_to of the output that run left, and the
\* checkpoint file says next_page = k + 1), starts fetching at page k + 1 with
\* the records of pages 1..k in its store.
DurablePages == files[out_path].pos
ResumesAfterBreak ==
  [][(/\ script = "store" /\ pc = "idle" /\ stop \in {"retries", "daily"} /\ pc' = "fetch"
      /\ Parses(out_path) /\ Parses(out_checkpoint)
      /\ files[out_checkpoint].pos = DurablePages + 1) =>
       /\ page' = DurablePages + 1
       /\ \A p \in 1..DurablePages : IntIdsOfPage(p) \subseteq IdsOf(players_by_id')]_vars

\* C13: in both scripts a write of save_progress / save_partial that raises
\* ends the run, and the loop comes back to its fetch after a successful page
\* only through the completed writes: at that step the store (partial) file
\* holds the snapshot of the page just fetched and the state (checkpoint) file
\* names the request that comes next.
PersistBeforeNextFetch ==
  [][/\ (pc \in SaveProgressPcs \cup SavePartialPcs /\ stop' = "write_error") => pc' = "idle"
     /\ (script = "all" /\ pc \in SaveProgressPcs /\ pc' = "fetch") =>
          /\ files'[out_path] = StoreSnapshot /\ files'[state_path] = StateSnapshot
          /\ files'[state_path].pos = cursor'
     /\ (script = "store" /\ pc \in SavePartialPcs /\ pc' = "fetch") =>
          /\ files'[out_partial] = PartialSnapshot
          /\ files'[out_checkpoint] = CheckpointSnapshot
          /\ files'[out_checkpoint].pos = page']_vars
\* C13 witness: json.dump of the store snapshot raised after a successful
\* fetch and the run of fetch_all_players.py ended there
WriteFailedAll ==
  /\ script = "all" /\ pc = "idle" /\ stop = "write_error"
  /\ files[out_tmp].st = "truncated" /\ ~Exists(out_path)
\* the same for fetch_store_players.py: the checkpoint write raised
WriteFailedStore ==
  /\ script = "store" /\ pc = "idle" /\ stop = "write_error"
  /\ files[out_checkpoint].st = "truncated" /\ Parses(out_partial)

\* C14: fetch_all_players.py started on a store file that is missing or does
\* not parse begins with an empty store and no cursor, whatever the state file
\* holds; started on a state file that is missing or does not parse it begins
\* with no cursor.
FreshStartWithoutStore ==
  [][(script = "all" /\ pc = "idle" /\ pc' = "fetch") =>
       /\ ~Parses(out_path) => (cursor' = None /\ players_by_id' = <<>>)
       /\ ~Parses(state_path) => cursor' = None]_vars

\* C15: in fetch_store_players.py no run ends on an exception raised by
\* fetch_page (a body that is not valid JSON, a timeout): such a failure is
\* retried like a failed status.
NoUnhandledFetchError == (script = "store" /\ pc = "idle") => stop # "exception"

\* C16: in fetch_all_players.py, when the loop has left through a stop
\* condition (no next cursor, or the empty-streak limit) and the final write
\* completes, the state file exists with resume_cursor null and the store file
\* exists and holds every record the run accumulated.
FinalWriteLeavesBoth ==
  [][(script = "all" /\ pc = "final_replace" /\ pc' = "idle"
      /\ stop' \in {"streak", "no_cursor"}) =>
       /\ Parses(state_path)' /\ files'[state_path].pos = None
       /\ files'[out_path] = StoreSnapshot]_vars
\* C16 witness: a run has ended on the empty-streak limit while the last
\* response still reported a next cursor
EndedOnStreakWithNextCursor ==
  /\ script = "all" /\ pc = "idle" /\ stop = "streak"
  /\ Len(endpoint) > MAX_EMPTY_STREAK
  /\ Parses(state_path) /\ files[state_path].pos = None /\ Parses(out_path)
\* ... and a run has ended on a missing next cursor with players in the store
EndedOnNoCursorWithPlayers ==
  /\ script = "all" /\ pc = "idle" /\ stop = "no_cursor"
  /\ Parses(state_path) /\ files[state_path].pos = None
  /\ Parses(out_path) /\ files[out_path].players # <<>>

\* C17: every store snapshot on disk (the store file of fetch_all_players.py,
\* the partial file and the final output of fetch_store_players.py) lists its
\* records in strictly ascending id order.
Ascending(list) == \A i \in 1..(Len(list) - 1) : list[i].id < list[i + 1].id
SnapshotsAscending ==
  \A p \in {out_path, out_partial} : Parses(p) => Ascending(files[p].players)

\* C18: in both scripts a failed fetch that is retried (the loop stays at its
\* fetch) changes neither the in-memory store nor any file nor the cursor /
\* page of the next request; within a run the cursor / page changes only in
\* the step that ends the persist of a successfully fetched page, and then to
\* the next one.
FailedFetchChangesNothing ==
  [][/\ (pc = "fetch" /\ pc' = "fetch") =>
          /\ players_by_id' = players_by_id /\ files' = files
          /\ cursor' = cursor /\ page' = page
     /\ (script = "all" /\ pc # "idle" /\ pc' # "idle" /\ cursor' # cursor) =>
          pc = "state_replace" /\ resp.valid /\ cursor' = resp.next_cursor
     /\ (script = "store" /\ pc # "idle" /\ pc' # "idle" /\ page' # page) =>
          pc = "checkpoint_write" /\ status = "200" /\ page' = page + 1]_vars
\* C18 witness: fetch_store_players.py is about to retry a page after the
\* first, with players in its store
RetryingStore ==
  /\ script = "store" /\ pc = "fetch" /\ attempts > 0 /\ page > 1 /\ players_by_id # <<>>
\* the same for fetch_all_players.py
RetryingAll ==
  /\ script = "all" /\ pc = "fetch" /\ attempts > 0 /\ cursor # None /\ players_by_id # <<>>

\* C19: in fetch_store_players.py without --wait-for-reset, after a 429/503/504
\* response whose x-ratelimit-requests-remaining or x-ratelimit-remaining
\* header is 0 the run has stopped: the loop is not back at its fetch.
StopsOnDailyLimit ==
  (/\ script = "store" /\ ~wait_for_reset /\ status = "retryable"
   /\ (observed.h.requests_remaining = 0 \/ observed.h.remaining = 0)) =>
    pc # "fetch"

\* C20: in fetch_store_players.py, when the loop is back at its fetch after a
\* non-200 response (of any status) that carried a positive Retry-After, the
\* sleep it took equals the Retry-After value.
RetryAfterHonoured ==
  (/\ script = "store" /\ pc = "fetch" /\ status \in {"retryable", "other"}
   /\ observed.h.retry_after > 0) =>
    observed.slept = observed.h.retry_after

\* C21: in fetch_all_players.py a successful page without any item with an
\* integer id adds one to the empty streak and any other successful page sets
\* it to 0; a failed attempt that is retried leaves it as it is; the loop goes
\* back to its fetch only with a streak below MAX_EMPTY_STREAK, and it stops on
\* the streak exactly when the streak has reached MAX_EMPTY_STREAK, whether or
\* not the last response reports a next cursor.
EmptyStreakStops ==
  [][script = "all" =>
       /\ (pc = "fetch" /\ pc' = "store_open") =>
            empty_streak' = IF IntIdsOfPage(cursor + 1) = {} THEN empty_streak + 1 ELSE 0
       /\ (pc = "fetch" /\ pc' = "fetch") => empty_streak' = empty_streak
       /\ (pc = "state_replace" /\ pc' = "fetch") => empty_streak < MAX_EMPTY_STREAK
       /\ (pc = "state_replace" /\ pc' = "final_open") =>
            (stop' = "streak" <=> empty_streak = MAX_EMPTY_STREAK)]_vars
\* C21 witness: the loop has stopped on the streak after a page with players,
\* on a page that holds an item without an integer id and reports a next cursor
StoppedOnStreak ==
  /\ script = "all" /\ pc = "final_open" /\ stop = "streak"
  /\ resp.next_cursor # None /\ resp.data # <<>> /\ players_by_id # <<>>
\* ... and a failed attempt is being retried inside a streak
RetryInsideStreak ==
  /\ script = "all" /\ pc = "fetch" /\ retries_for_page > 0
  /\ empty_streak = MAX_EMPTY_STREAK - 1 /\ players_by_id # <<>>

\* C22: in fetch_store_players.py, when a run has ended (in any way), every
\* record id that was in the final output file when the run was started is
\* still in the final output file.
OutputKeepsRecords ==
  (RunEnded /\ harness.phase = "runs") => IdsOf(harness.ref) \subseteq IdsOf(FinalOutput)

=============================================================================
